---- MODULE Spec2Model ----
(***************************************************************************)
(* Build supervisor of knyprjkt/build-bot: build-rom.py (variant "rom"),   *)
(* build-bot.py (variant "bot") and build-kernel.py (variant "kernel"),    *)
(* with the notification, upload and signal helpers of utils.py.           *)
(*                                                                         *)
(* One run of main(): the starting post, the spawn of the build child, the *)
(* monitor loop over the child's output, the report of the exit code, the  *)
(* resolution of the artifact, the uploads and the final report.  SIGINT   *)
(* can be delivered between any two steps of main().                       *)
(*                                                                         *)
(* Spec is the run without --sync, SpecSync the run with it, SpecMonitor   *)
(* the monitor loop with finer timing, SpecUpload the run against upload   *)
(* services that answer in every way the upload helpers tell apart, and    *)
(* SpecTgReq one call of tg_req.                                           *)
(***************************************************************************)
EXTENDS Integers, Sequences, FiniteSets, TLC

VARIABLES
    variant,            \* which script runs: "rom", "bot" or "kernel"
    USE_GOFILE,         \* CONFIG_GOFILE == "true"
    backends,           \* what the upload services can answer in this run
    tenths,             \* tenths of a second elapsed since the second of clock
    reads,              \* kernel loop: results of readline() since the last line
    parse,              \* one application of the progress pattern to a line
    sync_calls,         \* the sync commands run so far: <<command, exit code>>
    tg,                 \* one call of tg_req: position, attempts, result
    line_steps,         \* what the loop did with the line read last, in order
    pc,                 \* position of main()
    clock,              \* time.time(), in seconds
    stdout,             \* the lines the child has still to write
    child,              \* "none", "running", "closed" (stdout at EOF), "exited",
                        \* "failed" (Popen raised)
    child_code,         \* exit code of the child once it has exited
    term_sent,          \* SIGTERM was delivered to the child
    BUILD_PROCESS,      \* the global handle: FALSE is None
    msg_id,             \* 0 is None
    last_update,
    ninja_started,
    detected_zip,       \* "" is None
    return_code,        \* -1 while not set
    fs,                 \* the file system the artifact resolution has just seen
    final_zip,          \* "" is None
    globbed,            \* glob.glob for the primary artifact was called
    files_to_upload,
    upload_idx,
    buttons_list,
    main_file_uploaded,
    pd_link,
    gf_link,
    md5,
    uploads,            \* upload attempts made, in order: <<backend, file, response>>
    requests,           \* notification requests handed to tg_req, in order
    calls,              \* report calls made by main(), in order
    events,             \* progress events that reached the throttle: [time, emit]
    consumed,           \* the lines read so far
    hpc,                \* position of the SIGINT handler: "idle" when not running
    hlog,               \* what the handler did, in order
    sigints,            \* SIGINT deliveries so far
    req_at_sigint,      \* Len(requests) at the first SIGINT, -1 before
    exit_status         \* -1 while the program runs

vars == <<variant, USE_GOFILE, backends, tenths, reads, parse,
          sync_calls, tg, line_steps,
          pc, clock, stdout, child, child_code, term_sent,
          BUILD_PROCESS, msg_id, last_update, ninja_started, detected_zip,
          return_code, fs, final_zip, globbed, files_to_upload, upload_idx,
          buttons_list, main_file_uploaded, pd_link, gf_link, md5, uploads,
          requests, calls, events, consumed, hpc, hlog, sigints, req_at_sigint,
          exit_status>>

----------------------------------------------------------------------------
(* Bounds *)

\* lines of child output in the monitor-loop specification
MaxLines == 3
\* lines of child output in the whole-run specification
MaxOut == 2
\* SIGINT deliveries in one run
MaxSigint == 1
\* time.time() at the start of main(): seconds since 1970, far above 15
Epoch == 100
\* idle reads of the kernel loop in one run
MaxIdle == 2

\* the number of times the progress pattern is applied
MaxParses == 2

(* Program constants *)

\* "if now - last_update > 15"
MinInterval == 15

Variants == {"rom", "bot", "kernel"}

\* paths a "Package Complete:" line can name, and files the glob can match
Zips == {"a.zip", "b.zip"}

\* seconds between the reading of one line and of the next
Delays == {5, 15, 16}

(* A line of output, by what the loop tests on it:                          *)
(*   marker: "Starting ninja..." in log_line                                *)
(*   prog:   regex.search(log_line) matches                                 *)
(*   pkg:    "none" when "Package Complete:" is not in the line, "empty"    *)
(*           when nothing follows the marker, else the first token after it *)
(*   delay:  seconds since the previous line was read                       *)
Line(m, p, k, d) == [marker |-> m, prog |-> p, pkg |-> k, delay |-> d]

TimingLines == {Line(m, p, "none", d) : m \in BOOLEAN, p \in BOOLEAN, d \in Delays}

\* the lines of a whole run: only the rom loop looks for "Package Complete:"
RunLines(v) ==
    IF v = "rom"
    THEN {Line(FALSE, FALSE, k, 16) : k \in Zips \cup {"empty"}}
         \cup {Line(TRUE, TRUE, "none", 16)}
    ELSE {Line(FALSE, FALSE, "none", 16), Line(TRUE, TRUE, "none", 16)}

SeqsUpTo(S, n) == UNION {[1..k -> S] : k \in 0..n}

----------------------------------------------------------------------------
(* Pure helpers *)

\* mutant of should_emit: ">=" for ">"
should_emit_ge(now, last) == now - last >= MinInterval

\* build-rom.py:148, build-bot.py:280, build-kernel.py:224
should_emit(now, last) == now - last > MinInterval

\* mutant of is_progress: the latch is not tested
is_progress_nolatch(l, started) == l.prog

\* "match and ninja_started" (rom, bot)
is_progress(l, started) == l.prog /\ started

RECURSIVE MaxFirst(_, _)
\* max(zips, key=os.path.getctime): the first element with the greatest key
MaxFirst(zs, ct) ==
    IF Len(zs) = 1 THEN zs[1]
    ELSE LET r == MaxFirst(Tail(zs), ct)
         IN  IF ct[zs[1]] >= ct[r] THEN zs[1] ELSE r

Range(f) == {f[i] : i \in DOMAIN f}

\* mutant of resolve: the glob is tried before the detected path
resolve_glob_first(detected, det_exists, zs, ct) ==
    IF zs # <<>>
    THEN [zip |-> MaxFirst(zs, ct), globbed |-> TRUE]
    ELSE [zip |-> IF det_exists THEN detected ELSE "", globbed |-> TRUE]

\* build-rom.py:199-205: the detected path when it exists, else the newest
\* match of the glob; zip "" is None
resolve(detected, det_exists, zs, ct) ==
    IF detected # "" /\ det_exists
    THEN [zip |-> detected, globbed |-> FALSE]
    ELSE [zip |-> IF zs # <<>> THEN MaxFirst(zs, ct) ELSE "", globbed |-> TRUE]

Req(method, kind, t) == [method |-> method, kind |-> kind, time |-> t]

\* mutant of edit_msg: the request is made without a message id too
edit_msg_always(id, kind, t) == <<Req("editMessageText", kind, t)>>

\* utils.edit_msg: "if not msg_id or not chat_id: return", else one tg_req
edit_msg(id, kind, t) ==
    IF id = 0 THEN <<>> ELSE <<Req("editMessageText", kind, t)>>

----------------------------------------------------------------------------
(* Initial states *)

\* the upload services either fail at the transport or answer well
CoarseBackends == [pd |-> {"error", "ok"}, gf |-> {"error", "ok"}]

\* the progress pattern is not being applied
ParseIdle == [st |-> "idle", line |-> <<>>, n |-> 0, started |-> FALSE,
              matched |-> FALSE, emitted |-> FALSE, pct |-> <<>>, cnt |-> <<>>,
              time_left |-> <<>>, clean_time |-> <<>>,
              wf |-> FALSE, P |-> <<>>, A |-> <<>>, B |-> <<>>, T |-> <<>>]

\* no call of tg_req is under way
TgIdle == [st |-> "idle", flavour |-> "utils", token |-> TRUE, attempt |-> 0,
           log |-> <<>>, result |-> "none"]

\* fs before the artifact is resolved and after main() has moved on from it
FsGone == [det_exists |-> FALSE, zips |-> <<"-">>, ctime |-> [z \in Zips |-> 0]]

InitCommon ==
    /\ variant \in Variants
    /\ sync_calls = <<>>
    /\ line_steps = <<>>
    /\ tenths = 0
    /\ reads = <<>>
    /\ clock = Epoch
    /\ child = "none"
    /\ child_code = -1
    /\ term_sent = FALSE
    /\ BUILD_PROCESS = FALSE
    /\ msg_id = 0
    /\ last_update = 0
    /\ ninja_started = FALSE
    /\ detected_zip = ""
    /\ return_code = -1
    /\ fs = FsGone
    /\ final_zip = ""
    /\ globbed = FALSE
    /\ files_to_upload = <<>>
    /\ upload_idx = 0
    /\ buttons_list = <<>>
    /\ main_file_uploaded = FALSE
    /\ pd_link = FALSE
    /\ gf_link = FALSE
    /\ md5 = ""
    /\ uploads = <<>>
    /\ requests = <<>>
    /\ calls = <<>>
    /\ events = <<>>
    /\ consumed = <<>>
    /\ hpc = "idle"
    /\ hlog = <<>>
    /\ sigints = 0
    /\ req_at_sigint = -1
    /\ exit_status = -1

Init ==
    /\ InitCommon
    /\ parse = ParseIdle
    /\ pc = "start"
    /\ tg = TgIdle
    /\ backends = CoarseBackends
    /\ USE_GOFILE \in BOOLEAN
    /\ stdout \in SeqsUpTo(RunLines(variant), MaxOut)

InitMonitor ==
    /\ InitCommon
    /\ parse = ParseIdle
    /\ pc = "start"
    /\ tg = TgIdle
    /\ backends = CoarseBackends
    /\ USE_GOFILE = FALSE
    /\ stdout \in SeqsUpTo(TimingLines, MaxLines)

----------------------------------------------------------------------------
(* main(): from the starting post to the end of the monitor loop *)

Running == exit_status = -1 /\ hpc = "idle"

\* mutant of SendStart: a failed starting post ends the program
SendStart_needs_id ==
    /\ Running /\ pc = "start"
    /\ requests' = Append(requests, Req("sendMessage", "build_start", clock))
    /\ calls' = Append(calls, "build_start")
    /\ \E id \in {0, 1} :
         /\ msg_id' = id
         /\ IF id = 0 THEN pc' = "done" /\ exit_status' = 1
            ELSE pc' = "spawn" /\ UNCHANGED exit_status
    /\ UNCHANGED <<variant, USE_GOFILE, backends, tenths, reads, parse,
                   sync_calls, tg, line_steps,
                   clock, stdout, child, child_code, term_sent,
                   BUILD_PROCESS, last_update, ninja_started, detected_zip,
                   return_code, fs, final_zip, globbed, files_to_upload, upload_idx,
                   buttons_list, main_file_uploaded, pd_link, gf_link, md5, uploads,
                   events, consumed, hpc, hlog, sigints, req_at_sigint>>

\* msg_id = utils.send_msg(MESSAGES["build_start"]): the id, or None when the
\* request fails
SendStart ==
    /\ Running /\ pc = "start"
    /\ requests' = Append(requests, Req("sendMessage", "build_start", clock))
    /\ calls' = Append(calls, "build_start")
    /\ \E id \in {0, 1} : msg_id' = id
    /\ pc' = "spawn"
    /\ UNCHANGED <<variant, USE_GOFILE, backends, tenths, reads, parse,
                   sync_calls, tg, line_steps,
                   clock, stdout, child, child_code, term_sent,
                   BUILD_PROCESS, last_update, ninja_started, detected_zip,
                   return_code, fs, final_zip, globbed, files_to_upload, upload_idx,
                   buttons_list, main_file_uploaded, pd_link, gf_link, md5, uploads,
                   events, consumed, hpc, hlog, sigints, req_at_sigint, exit_status>>

\* subprocess.Popen(build_cmd, ...) has started the child; its result is not
\* yet stored
Spawn ==
    /\ Running /\ pc = "spawn"
    /\ child' = "running"
    /\ pc' = "store"
    /\ UNCHANGED <<variant, USE_GOFILE, backends, tenths, reads, parse,
                   sync_calls, tg, line_steps,
                   clock, stdout, child_code, term_sent,
                   BUILD_PROCESS, msg_id, last_update, ninja_started, detected_zip,
                   return_code, fs, final_zip, globbed, files_to_upload, upload_idx,
                   buttons_list, main_file_uploaded, pd_link, gf_link, md5, uploads,
                   requests, calls, events, consumed, hpc, hlog, sigints,
                   req_at_sigint, exit_status>>

\* subprocess.Popen raises OSError (no /bin/bash, fork refused): the call is
\* outside the try, the exception leaves main() and the interpreter ends
\* with a traceback and status 1
SpawnFails ==
    /\ Running /\ pc = "spawn"
    /\ child' = "failed"
    /\ exit_status' = 1
    /\ pc' = "done"
    /\ UNCHANGED <<variant, USE_GOFILE, backends, tenths, reads, parse,
                   sync_calls, tg, line_steps,
                   clock, stdout, child_code, term_sent,
                   BUILD_PROCESS, msg_id, last_update, ninja_started, detected_zip,
                   return_code, fs, final_zip, globbed, files_to_upload, upload_idx,
                   buttons_list, main_file_uploaded, pd_link, gf_link, md5, uploads,
                   requests, calls, events, consumed, hpc, hlog, sigints,
                   req_at_sigint>>

\* mutant of StoreHandle: last_update starts at the current time
StoreHandle_init_now ==
    /\ Running /\ pc = "store"
    /\ BUILD_PROCESS' = TRUE
    /\ last_update' = clock
    /\ ninja_started' = FALSE
    /\ detected_zip' = ""
    /\ pc' = "loop"
    /\ UNCHANGED <<variant, USE_GOFILE, backends, tenths, reads, parse,
                   sync_calls, tg, line_steps,
                   clock, stdout, child, child_code, term_sent,
                   msg_id, return_code, fs, final_zip, globbed, files_to_upload,
                   upload_idx, buttons_list, main_file_uploaded, pd_link, gf_link,
                   md5, uploads, requests, calls, events, consumed, hpc, hlog,
                   sigints, req_at_sigint, exit_status>>

\* BUILD_PROCESS = <the Popen object>; last_update = 0; ninja_started = False
StoreHandle ==
    /\ Running /\ pc = "store"
    /\ BUILD_PROCESS' = TRUE
    /\ last_update' = 0
    /\ ninja_started' = FALSE
    /\ detected_zip' = ""
    /\ pc' = "loop"
    /\ UNCHANGED <<variant, USE_GOFILE, backends, tenths, reads, parse,
                   sync_calls, tg, line_steps,
                   clock, stdout, child, child_code, term_sent,
                   msg_id, return_code, fs, final_zip, globbed, files_to_upload,
                   upload_idx, buttons_list, main_file_uploaded, pd_link, gf_link,
                   md5, uploads, requests, calls, events, consumed, hpc, hlog,
                   sigints, req_at_sigint, exit_status>>

\* mutant of Throttle: a suppressed event moves last_update too
Throttle_restarts(prog, now) ==
    IF prog
    THEN LET emit == should_emit(now, last_update)
         IN  /\ events' = Append(events, [time |-> now, emit |-> emit])
             /\ last_update' = now
             /\ IF emit
                THEN /\ requests' = requests \o edit_msg(msg_id, "progress", now)
                     /\ calls' = Append(calls, "progress")
                ELSE UNCHANGED <<requests, calls>>
    ELSE UNCHANGED <<events, requests, calls, last_update>>

\* The throttled progress edit of one line: "if now - last_update > 15:
\* edit_msg(...); last_update = now".  prog says whether the line is a progress
\* event ("match and ninja_started"; every line in the kernel loop).
Throttle(prog, now) ==
    IF prog
    THEN LET emit == should_emit(now, last_update)
         IN  /\ events' = Append(events, [time |-> now, emit |-> emit])
             /\ IF emit
                THEN /\ requests' = requests \o edit_msg(msg_id, "progress", now)
                     /\ calls' = Append(calls, "progress")
                     /\ last_update' = now
                ELSE UNCHANGED <<requests, calls, last_update>>
    ELSE UNCHANGED <<events, requests, calls, last_update>>

\* What one iteration does with its line, in order.  rom, bot:
\* sys.stdout.write, log_file.write, then the "Package Complete:" / marker /
\* regex tests (which raise IndexError on a "Package Complete:" with nothing
\* after it), then the edit and "last_update = now".  kernel: log_file.write,
\* then the edit and "last_update = now"; there is no echo and no parser.
loop_steps(v, raised, prog, emit) ==
    (IF v = "kernel" THEN <<"log">> ELSE <<"echo", "log">>)
    \o (IF raised THEN <<"raise">>
        ELSE (IF v = "kernel" THEN <<>> ELSE <<"classify">>)
             \o (IF prog /\ emit THEN <<"edit", "last_update">> ELSE <<>>))

\* One iteration of "for log_line in BUILD_PROCESS.stdout" (rom, bot)
ReadLine ==
    /\ Running /\ pc = "loop" /\ variant \in {"rom", "bot"}
    /\ child = "running" /\ stdout # <<>>
    /\ LET l == Head(stdout)
           now == clock + l.delay
       IN  /\ stdout' = Tail(stdout)
           /\ consumed' = Append(consumed, l)
           /\ clock' = now
           /\ IF variant = "rom" /\ l.pkg = "empty"
              THEN \* split("Package Complete:")[1].strip().split()[0] raises
                   \* IndexError: "except Exception" sets return_code = 1
                   /\ return_code' = 1
                   /\ pc' = "report"
                   /\ line_steps' = loop_steps(variant, TRUE, FALSE, FALSE)
                   /\ UNCHANGED <<detected_zip, ninja_started, events, requests,
                                  calls, last_update>>
              ELSE /\ detected_zip' =
                         IF variant = "rom" /\ l.pkg # "none" THEN l.pkg
                         ELSE detected_zip
                   /\ ninja_started' = (ninja_started \/ l.marker)
                   /\ Throttle(is_progress(l, ninja_started'), now)
                   /\ line_steps' = loop_steps(variant, FALSE,
                                               is_progress(l, ninja_started'),
                                               should_emit(now, last_update))
                   /\ UNCHANGED <<return_code, pc>>
    /\ UNCHANGED <<variant, USE_GOFILE, backends, tenths, reads, parse,
                   sync_calls, tg,
                   child, child_code, term_sent, BUILD_PROCESS,
                   msg_id, fs, final_zip, globbed, files_to_upload, upload_idx,
                   buttons_list, main_file_uploaded, pd_link, gf_link, md5, uploads,
                   hpc, hlog, sigints, req_at_sigint, exit_status>>

\* one readline() of the kernel loop: whether it returned data, whether
\* poll() was None after it, and when, in tenths of a second
Read(data, alive, now) == [data |-> data, alive |-> alive, at |-> now * 10 + tenths]

IdleReads == {i \in DOMAIN reads : ~reads[i].data /\ reads[i].alive}

\* mutant of IdleTenths: the loop does not sleep
IdleTenths_none == 1 - 1

\* time.sleep(0.1)
IdleTenths == 1

\* One iteration of the kernel loop in which readline() returned "" at the
\* end of the child's output while poll() is None: "time.sleep(0.1); continue"
KernelIdle ==
    /\ Running /\ pc = "loop" /\ variant = "kernel"
    /\ child = "closed"
    /\ Cardinality(IdleReads) < MaxIdle
    /\ reads' = Append(reads, Read(FALSE, TRUE, clock))
    /\ tenths' = (tenths + IdleTenths) % 10
    /\ clock' = clock + ((tenths + IdleTenths) \div 10)
    /\ UNCHANGED <<variant, USE_GOFILE, backends, parse,
                   sync_calls, tg, line_steps,
                   pc, stdout, child, child_code, term_sent,
                   BUILD_PROCESS, msg_id, last_update, ninja_started, detected_zip,
                   return_code, fs, final_zip, globbed, files_to_upload, upload_idx,
                   buttons_list, main_file_uploaded, pd_link, gf_link, md5, uploads,
                   requests, calls, events, consumed, hpc, hlog, sigints,
                   req_at_sigint, exit_status>>

\* One iteration of the kernel loop in which readline() returned a line
ReadLineKernel ==
    /\ Running /\ pc = "loop" /\ variant = "kernel"
    /\ child = "running" /\ stdout # <<>>
    /\ LET l == Head(stdout)
           now == clock + l.delay
       IN  /\ stdout' = Tail(stdout)
           /\ consumed' = Append(consumed, l)
           /\ clock' = now
           /\ Throttle(TRUE, now)
           /\ line_steps' = loop_steps(variant, FALSE, TRUE,
                                       should_emit(now, last_update))
           /\ reads' = Append(reads, Read(TRUE, TRUE, now))
    /\ UNCHANGED <<variant, USE_GOFILE, backends, tenths, parse,
                   sync_calls, tg,
                   pc, child, child_code, term_sent,
                   BUILD_PROCESS, msg_id, ninja_started, detected_zip, return_code,
                   fs, final_zip, globbed, files_to_upload, upload_idx, buttons_list,
                   main_file_uploaded, pd_link, gf_link, md5, uploads, hpc, hlog,
                   sigints, req_at_sigint, exit_status>>

\* The output is at end of file: the for loop ends (rom, bot); readline()
\* returns "" and poll() is not None (kernel)
EndOfOutput ==
    /\ Running /\ pc = "loop"
    /\ IF variant = "kernel" THEN child = "exited" ELSE child \in {"closed", "exited"}
    /\ reads' = IF variant = "kernel" THEN Append(reads, Read(FALSE, FALSE, clock))
                ELSE reads
    /\ pc' = "wait"
    /\ UNCHANGED <<variant, USE_GOFILE, backends, tenths, parse,
                   sync_calls, tg, line_steps,
                   clock, stdout, child, child_code, term_sent,
                   BUILD_PROCESS, msg_id, last_update, ninja_started, detected_zip,
                   return_code, fs, final_zip, globbed, files_to_upload, upload_idx,
                   buttons_list, main_file_uploaded, pd_link, gf_link, md5, uploads,
                   requests, calls, events, consumed, hpc, hlog, sigints,
                   req_at_sigint, exit_status>>

\* return_code = BUILD_PROCESS.wait() (rom, bot); return_code =
\* BUILD_PROCESS.poll() (kernel); then "finally: log_file.close()"
WaitChild ==
    /\ Running /\ pc = "wait"
    /\ child = "exited"
    /\ return_code' = child_code
    /\ pc' = "report"
    /\ UNCHANGED <<variant, USE_GOFILE, backends, tenths, reads, parse,
                   sync_calls, tg, line_steps,
                   clock, stdout, child, child_code, term_sent,
                   BUILD_PROCESS, msg_id, last_update, ninja_started, detected_zip,
                   fs, final_zip, globbed, files_to_upload, upload_idx, buttons_list,
                   main_file_uploaded, pd_link, gf_link, md5, uploads, requests,
                   calls, events, consumed, hpc, hlog, sigints, req_at_sigint,
                   exit_status>>

----------------------------------------------------------------------------
(* The child process *)

ExitCodes == {0, 1}

\* The child has written its last line and closes its output
ChildClose ==
    /\ child = "running" /\ stdout = <<>>
    /\ child' = "closed"
    /\ UNCHANGED <<variant, USE_GOFILE, backends, tenths, reads, parse,
                   sync_calls, tg, line_steps,
                   pc, clock, stdout, child_code, term_sent,
                   BUILD_PROCESS, msg_id, last_update, ninja_started, detected_zip,
                   return_code, fs, final_zip, globbed, files_to_upload, upload_idx,
                   buttons_list, main_file_uploaded, pd_link, gf_link, md5, uploads,
                   requests, calls, events, consumed, hpc, hlog, sigints,
                   req_at_sigint, exit_status>>

\* The child exits with a code of its own
ChildExit ==
    /\ child = "closed"
    /\ child' = "exited"
    /\ \E c \in ExitCodes : child_code' = c
    /\ UNCHANGED <<variant, USE_GOFILE, backends, tenths, reads, parse,
                   sync_calls, tg, line_steps,
                   pc, clock, stdout, term_sent, BUILD_PROCESS,
                   msg_id, last_update, ninja_started, detected_zip, return_code, fs,
                   final_zip, globbed, files_to_upload, upload_idx, buttons_list,
                   main_file_uploaded, pd_link, gf_link, md5, uploads, requests,
                   calls, events, consumed, hpc, hlog, sigints, req_at_sigint,
                   exit_status>>

\* The child dies of the SIGTERM the handler sent it
ChildDie ==
    /\ child \in {"running", "closed"} /\ term_sent
    /\ child' = "exited"
    /\ child_code' = -15
    /\ UNCHANGED <<variant, USE_GOFILE, backends, tenths, reads, parse,
                   sync_calls, tg, line_steps,
                   pc, clock, stdout, term_sent, BUILD_PROCESS,
                   msg_id, last_update, ninja_started, detected_zip, return_code, fs,
                   final_zip, globbed, files_to_upload, upload_idx, buttons_list,
                   main_file_uploaded, pd_link, gf_link, md5, uploads, requests,
                   calls, events, consumed, hpc, hlog, sigints, req_at_sigint,
                   exit_status>>

----------------------------------------------------------------------------
(* main(): the report of the exit code and the failure path *)

Frame_report == <<variant, USE_GOFILE, backends, tenths, reads, parse,
                  sync_calls, tg, line_steps,
                  clock, stdout, child, child_code, term_sent,
                  BUILD_PROCESS, msg_id, last_update, ninja_started, detected_zip,
                  return_code, events, consumed, hpc, hlog, sigints, req_at_sigint>>

\* mutant of exit_failure: sys.exit(0)
exit_failure_zero == 1 - 1

\* sys.exit(1) after a failure report
exit_failure == 1

\* mutant of takes_failure_path: only negative codes count as failures
takes_failure_path_neg(rc) == rc < 0

\* "if return_code != 0": the build-failed edit, else the uploading edit
takes_failure_path(rc) == rc # 0

Report ==
    /\ Running /\ pc = "report"
    /\ IF takes_failure_path(return_code)
       THEN /\ requests' = requests \o edit_msg(msg_id, "build_fail", clock)
            /\ calls' = Append(calls, "build_fail")
            /\ pc' = "fail_doc"
       ELSE /\ requests' = requests \o edit_msg(msg_id, "uploading", clock)
            /\ calls' = Append(calls, "uploading")
            /\ pc' = "resolve"
    /\ UNCHANGED Frame_report
    /\ UNCHANGED <<fs, final_zip, globbed, files_to_upload, upload_idx, buttons_list,
                   main_file_uploaded, pd_link, gf_link, md5, uploads, exit_status>>

\* mutant of FailDoc: no sys.exit(1) after the log is sent, main() goes on
FailDoc_returns ==
    /\ Running /\ pc = "fail_doc"
    /\ \E error_log \in (IF variant = "kernel" THEN {FALSE} ELSE BOOLEAN) :
         requests' = Append(requests,
             Req("sendDocument", IF error_log THEN "out/error.log" ELSE "build.log",
                 clock))
    /\ calls' = Append(calls, "send_doc")
    /\ pc' = "resolve"
    /\ UNCHANGED Frame_report
    /\ UNCHANGED <<fs, final_zip, globbed, files_to_upload, upload_idx, buttons_list,
                   main_file_uploaded, pd_link, gf_link, md5, uploads, exit_status>>

\* err_log = "out/error.log" if it exists else "build.log" (rom, bot), LOG_FILE
\* (kernel); send_doc(err_log, ERROR_CHAT_ID); sys.exit(1)
FailDoc ==
    /\ Running /\ pc = "fail_doc"
    /\ \E error_log \in (IF variant = "kernel" THEN {FALSE} ELSE BOOLEAN) :
         requests' = Append(requests,
             Req("sendDocument", IF error_log THEN "out/error.log" ELSE "build.log",
                 clock))
    /\ calls' = Append(calls, "send_doc")
    /\ exit_status' = exit_failure
    /\ pc' = "done"
    /\ UNCHANGED Frame_report
    /\ UNCHANGED <<fs, final_zip, globbed, files_to_upload, upload_idx, buttons_list,
                   main_file_uploaded, pd_link, gf_link, md5, uploads>>

----------------------------------------------------------------------------
(* main(): artifact resolution *)

GlobResults == {<<>>, <<"b.zip">>, <<"a.zip", "b.zip">>, <<"b.zip", "a.zip">>}

NoCtime == [z \in Zips |-> 0]

Ctimes == {[z \in Zips |-> IF z = "a.zip" THEN 1 ELSE 2],
           [z \in Zips |-> IF z = "a.zip" THEN 2 ELSE 1],
           [z \in Zips |-> 1]}

\* The file systems main() can find: the detected path exists when the glob
\* matches it
FileSystems(detected) ==
    {f \in [det_exists : BOOLEAN, zips : GlobResults, ctime : Ctimes \cup {NoCtime}] :
        /\ (detected = "" => ~f.det_exists)
        /\ (detected \in Range(f.zips) => f.det_exists)
        /\ (f.ctime = NoCtime <=> Len(f.zips) < 2)}

\* build-rom.py:198-205, build-bot.py:331-341; build-kernel.py:269-270, where
\* package_anykernel returns the path of the bundle or None
Resolve ==
    /\ Running /\ pc = "resolve"
    /\ \/ /\ variant \in {"rom", "bot"}
          /\ \E f \in FileSystems(detected_zip) :
               LET r == resolve(detected_zip, f.det_exists, f.zips, f.ctime)
               IN  /\ fs' = f
                   /\ final_zip' = r.zip
                   /\ globbed' = r.globbed
       \/ /\ variant = "kernel"
          /\ \E z \in {"", "kernel.zip"} : final_zip' = z
          /\ UNCHANGED <<fs, globbed>>
    /\ pc' = IF final_zip' = "" THEN "nozip"
             ELSE IF variant = "rom" THEN "plan" ELSE "up_pd"
    /\ UNCHANGED Frame_report
    /\ UNCHANGED <<files_to_upload, upload_idx, buttons_list, main_file_uploaded,
                   pd_link, gf_link, md5, uploads, requests, calls, exit_status>>

\* "if not final_zip": the upload-failed edit and sys.exit(1)
NoZip ==
    /\ Running /\ pc = "nozip"
    /\ requests' = requests \o edit_msg(msg_id, "upload_fail", clock)
    /\ calls' = Append(calls, "upload_fail")
    /\ exit_status' = exit_failure
    /\ pc' = "done"
    /\ UNCHANGED Frame_report
    /\ UNCHANGED <<fs, final_zip, globbed, files_to_upload, upload_idx, buttons_list,
                   main_file_uploaded, pd_link, gf_link, md5, uploads>>

----------------------------------------------------------------------------
(* main(): uploads *)

File(label, path) == [label |-> label, path |-> path]

\* what the PixelDrain request can do: raise (network error, unreadable
\* file), answer with a status other than 200/201, answer 200 with a body that
\* is not JSON, answer 200 with a JSON object that has no "id", answer 200
\* with a JSON object holding the id
PdResponses == {"error", "non2xx", "badjson", "noid", "ok"}

\* what the GoFile requests can do: raise, answer with a status other than
\* 200, answer 200 with a body lacking data.downloadPage, answer 200 with the
\* download page
GfResponses == {"error", "non200", "nokey", "ok"}

NoLink == ""

\* upload_pd: the link returned, NoLink for None. r.json().get('id') is None
\* for an object without "id", and the f-string formats it as "None".
upload_pd(resp) ==
    CASE resp = "ok" -> "pixeldrain.com/u/id"
      [] resp = "noid" -> "pixeldrain.com/u/None"
      [] OTHER -> NoLink

\* upload_gofile: r.json()["data"]["downloadPage"] raises KeyError when the
\* key is missing, which the except turns into None
upload_gofile(resp) ==
    IF resp = "ok" THEN "gofile.io/d/page" ELSE NoLink

\* mutant of files_in_order: the secondary files come first
files_secondary_first(primary, secondary) == secondary \o primary

\* build-rom.py:238-244: files_to_upload = [("Download", final_zip)], then the
\* appends of the recovery bundle and of the JSON file
files_in_order(primary, secondary) == primary \o secondary

\* "if USE_GOFILE:" after upload_pd has returned a link (ok) or None
attempts_gofile(ok) == USE_GOFILE

\* mutant of is_main_file: a link of any file counts
is_main_file_any(path) == TRUE

\* "if file_path == final_zip: main_file_uploaded = True"
is_main_file(path) == path = final_zip

\* build-rom.py:216-247: the recovery bundle and the JSON file are optional
Plan ==
    /\ Running /\ pc = "plan" /\ variant = "rom"
    /\ \E rec \in BOOLEAN, js \in BOOLEAN :
         files_to_upload' =
             files_in_order(
                 <<File("Download", final_zip)>>,
                 (IF rec THEN <<File("Recovery", "rec.zip")>> ELSE <<>>)
                 \o (IF js THEN <<File("JSON", "x.json")>> ELSE <<>>))
    /\ upload_idx' = 1
    /\ buttons_list' = <<>>
    /\ main_file_uploaded' = FALSE
    /\ pc' = "up_pd"
    /\ UNCHANGED Frame_report
    /\ UNCHANGED <<final_zip, globbed, pd_link, gf_link, md5, uploads, requests,
                   calls, exit_status>>
    /\ fs' = FsGone

\* the next file of "for label, file_path in files_to_upload", or the end
NextFile ==
    IF upload_idx < Len(files_to_upload)
    THEN /\ upload_idx' = upload_idx + 1
         /\ pc' = "up_pd"
    ELSE /\ upload_idx' = upload_idx
         /\ pc' = "size"

\* build-rom.py:253-257: pd_link = utils.upload_pd(file_path)
UploadPdRom ==
    /\ Running /\ pc = "up_pd" /\ variant = "rom"
    /\ LET f == files_to_upload[upload_idx]
       IN  \E resp \in backends.pd : LET ok == upload_pd(resp) # NoLink IN
             /\ uploads' = Append(uploads, <<"pd", f.path, resp>>)
             /\ IF ok
                THEN /\ buttons_list' = Append(buttons_list, <<f.label, "PD">>)
                     /\ main_file_uploaded' =
                            (main_file_uploaded \/ is_main_file(f.path))
                ELSE UNCHANGED <<buttons_list, main_file_uploaded>>
             /\ IF attempts_gofile(ok)
                THEN pc' = "up_gf" /\ UNCHANGED upload_idx
                ELSE NextFile
    /\ UNCHANGED Frame_report
    /\ UNCHANGED <<fs, final_zip, globbed, files_to_upload, pd_link, gf_link, md5,
                   requests, calls, exit_status>>

\* build-rom.py:259-264: "if USE_GOFILE: gf_link = utils.upload_gofile(file_path)"
UploadGfRom ==
    /\ Running /\ pc = "up_gf" /\ variant = "rom"
    /\ LET f == files_to_upload[upload_idx]
       IN  \E resp \in backends.gf : LET ok == upload_gofile(resp) # NoLink IN
             /\ uploads' = Append(uploads, <<"gf", f.path, resp>>)
             /\ IF ok
                THEN /\ buttons_list' = Append(buttons_list, <<f.label, "GF">>)
                     /\ main_file_uploaded' =
                            (main_file_uploaded \/ is_main_file(f.path))
                ELSE UNCHANGED <<buttons_list, main_file_uploaded>>
    /\ NextFile
    /\ UNCHANGED Frame_report
    /\ UNCHANGED <<fs, final_zip, globbed, files_to_upload, pd_link, gf_link, md5,
                   requests, calls, exit_status>>

\* build-bot.py:344, build-kernel.py:284: pd_link = upload_pd(final_zip)
UploadPd ==
    /\ Running /\ pc = "up_pd" /\ variant \in {"bot", "kernel"}
    /\ \E resp \in backends.pd : LET ok == upload_pd(resp) # NoLink IN
         /\ uploads' = Append(uploads, <<"pd", final_zip, resp>>)
         /\ pd_link' = ok
         /\ pc' = IF attempts_gofile(ok) THEN "up_gf" ELSE "size"
    /\ UNCHANGED Frame_report
    /\ UNCHANGED <<final_zip, globbed, files_to_upload, upload_idx, buttons_list,
                   main_file_uploaded, gf_link, md5, requests, calls, exit_status>>
    /\ fs' = FsGone

\* build-bot.py:345, build-kernel.py:285:
\* gf_link = upload_gofile(final_zip) if USE_GOFILE else None
UploadGf ==
    /\ Running /\ pc = "up_gf" /\ variant \in {"bot", "kernel"}
    /\ \E resp \in backends.gf : LET ok == upload_gofile(resp) # NoLink IN
         /\ uploads' = Append(uploads, <<"gf", final_zip, resp>>)
         /\ gf_link' = ok
    /\ pc' = "size"
    /\ UNCHANGED Frame_report
    /\ UNCHANGED <<fs, final_zip, globbed, files_to_upload, upload_idx, buttons_list,
                   main_file_uploaded, pd_link, md5, requests, calls, exit_status>>

----------------------------------------------------------------------------
(* main(): size, checksum and the final report *)

\* upload_duration, os.path.getsize(final_zip); then main() enters
\* "try: md5 = subprocess.check_output(["md5sum", final_zip])"
Size ==
    /\ Running /\ pc = "size"
    /\ pc' = "md5"
    /\ UNCHANGED Frame_report
    /\ UNCHANGED <<fs, final_zip, globbed, files_to_upload, upload_idx, buttons_list,
                   main_file_uploaded, pd_link, gf_link, md5, uploads, requests,
                   calls, exit_status>>

AfterMd5 == IF variant = "rom" THEN "final" ELSE "buttons"

\* md5sum returns, or fails and "except:" sets md5 = "N/A"
Md5 ==
    /\ Running /\ pc = "md5"
    /\ \E h \in {"hash", "N/A"} : md5' = h
    /\ pc' = AfterMd5
    /\ UNCHANGED Frame_report
    /\ UNCHANGED <<fs, final_zip, globbed, files_to_upload, upload_idx, buttons_list,
                   main_file_uploaded, pd_link, gf_link, uploads, requests, calls,
                   exit_status>>

\* build-bot.py:357-361, build-kernel.py:295-299
Buttons ==
    /\ Running /\ pc = "buttons" /\ variant \in {"bot", "kernel"}
    /\ buttons_list' =
           (IF pd_link THEN <<<<"Download", "PD">>>> ELSE <<>>)
           \o (IF USE_GOFILE /\ gf_link THEN <<<<"Download", "GF">>>> ELSE <<>>)
    /\ pc' = IF variant = "bot" THEN "json" ELSE "final"
    /\ UNCHANGED Frame_report
    /\ UNCHANGED <<fs, final_zip, globbed, files_to_upload, upload_idx,
                   main_file_uploaded, pd_link, gf_link, md5, uploads, requests,
                   calls, exit_status>>

\* build-bot.py:364-368: the optional JSON file goes to PixelDrain only
JsonUpload ==
    /\ Running /\ pc = "json" /\ variant = "bot"
    /\ \E js \in BOOLEAN :
         IF js
         THEN \E resp \in backends.pd : LET ok == upload_pd(resp) # NoLink IN
                /\ uploads' = Append(uploads, <<"pd", "x.json", resp>>)
                /\ buttons_list' = IF ok THEN Append(buttons_list, <<"JSON", "PD">>)
                                   ELSE buttons_list
         ELSE UNCHANGED <<uploads, buttons_list>>
    /\ pc' = "final"
    /\ UNCHANGED Frame_report
    /\ UNCHANGED <<fs, final_zip, globbed, files_to_upload, upload_idx,
                   main_file_uploaded, pd_link, gf_link, md5, requests, calls,
                   exit_status>>

\* "if main_file_uploaded" (rom), "if pd_link or gf_link" (bot, kernel)
primary_uploaded ==
    IF variant = "rom" THEN main_file_uploaded ELSE (pd_link \/ gf_link)

\* the status main() ends with when it returns after the final report
exit_after_final(uploaded) == 0

\* The final edit; main() returns and the program ends with status 0
Final ==
    /\ Running /\ pc = "final"
    /\ LET kind == IF primary_uploaded THEN "final_msg" ELSE "upload_fail"
       IN  /\ requests' = requests \o edit_msg(msg_id, kind, clock)
           /\ calls' = Append(calls, kind)
    /\ exit_status' = exit_after_final(primary_uploaded)
    /\ pc' = "done"
    /\ UNCHANGED Frame_report
    /\ UNCHANGED <<fs, final_zip, globbed, files_to_upload, upload_idx, buttons_list,
                   main_file_uploaded, pd_link, gf_link, md5, uploads>>

----------------------------------------------------------------------------
(* The SIGINT handler: utils.register_signal_handler (rom), signal_handler  *)
(* (bot, kernel).  It runs in the main thread, between two steps of main(). *)

Frame_handler == <<variant, USE_GOFILE, backends, tenths, reads, parse,
                   sync_calls, tg, line_steps,
                   stdout, BUILD_PROCESS, msg_id, last_update,
                   ninja_started, detected_zip, return_code, fs, final_zip, globbed,
                   files_to_upload, upload_idx, buttons_list, main_file_uploaded,
                   pd_link, gf_link, uploads, requests, calls, events, consumed>>

\* "process and process.poll() is None"
sees_live_child(handle, ch) == handle /\ ch \in {"running", "closed"}

\* for hlog: the child as it is when the handler starts, and when it wakes
ChildSeen ==
    IF child \notin {"running", "closed"} THEN "enter_nochild"
    ELSE IF BUILD_PROCESS THEN "enter_alive" ELSE "enter_unseen"

ChildAtWake == IF child \in {"running", "closed"} THEN "wake_alive" ELSE "wake_dead"

\* SIGINT is delivered: "if process and process.poll() is None:
\* process.terminate()", up to time.sleep(1)
Sigint ==
    /\ exit_status = -1 /\ hpc = "idle" /\ sigints < MaxSigint
    /\ sigints' = sigints + 1
    /\ req_at_sigint' = IF req_at_sigint = -1 THEN Len(requests) ELSE req_at_sigint
    /\ IF sees_live_child(BUILD_PROCESS, child)
       THEN /\ term_sent' = TRUE
            /\ hlog' = hlog \o <<ChildSeen, "terminate">>
            /\ hpc' = "sleep"
       ELSE /\ hlog' = Append(hlog, ChildSeen)
            /\ hpc' = "exit"
            /\ UNCHANGED term_sent
    /\ UNCHANGED Frame_handler
    /\ UNCHANGED <<pc, clock, child, child_code, md5, exit_status>>

\* mutant of still_alive: the handler never kills
still_alive_never(ch) == FALSE

\* after time.sleep(1): "if process.poll() is None: process.kill()"
still_alive(ch) == ch \in {"running", "closed"}

HandlerWake ==
    /\ exit_status = -1 /\ hpc = "sleep"
    /\ clock' = clock + 1
    /\ IF still_alive(child)
       THEN /\ child' = "exited"
            /\ child_code' = -9
            /\ hlog' = hlog \o <<ChildAtWake, "kill">>
       ELSE /\ hlog' = Append(hlog, ChildAtWake)
            /\ UNCHANGED <<child, child_code>>
    /\ hpc' = "exit"
    /\ UNCHANGED Frame_handler
    /\ UNCHANGED <<pc, term_sent, md5, sigints, req_at_sigint, exit_status>>

\* sys.exit(0) raises SystemExit in main(): the bare "except:" around md5sum
\* catches it (build-rom.py:270-273, build-bot.py:351-354,
\* build-kernel.py:290-293); anywhere else the program ends with status 0
swallows_exit(p) == p = "md5"

HandlerExit ==
    /\ exit_status = -1 /\ hpc = "exit"
    /\ hlog' = Append(hlog, "exit")
    /\ hpc' = "idle"
    /\ IF swallows_exit(pc)
       THEN /\ md5' = "N/A"
            /\ pc' = AfterMd5
            /\ UNCHANGED exit_status
       ELSE /\ exit_status' = 0
            /\ pc' = "done"
            /\ UNCHANGED md5
    /\ UNCHANGED Frame_handler
    /\ UNCHANGED <<clock, child, child_code, term_sent, sigints, req_at_sigint>>

----------------------------------------------------------------------------
(* Specifications *)

NextMonitor ==
    \/ SendStart
    \/ Spawn
    \/ StoreHandle
    \/ ReadLine
    \/ ReadLineKernel
    \/ KernelIdle
    \/ EndOfOutput
    \/ WaitChild
    \/ ChildClose
    \/ ChildExit

SpecMonitor == InitMonitor /\ [][NextMonitor]_vars

Next ==
    \/ NextMonitor
    \/ SpawnFails
    \/ ChildDie
    \/ Report
    \/ FailDoc
    \/ Resolve
    \/ NoZip
    \/ Plan
    \/ UploadPdRom
    \/ UploadGfRom
    \/ UploadPd
    \/ UploadGf
    \/ Size
    \/ Md5
    \/ Buttons
    \/ JsonUpload
    \/ Final
    \/ Sigint
    \/ HandlerWake
    \/ HandlerExit

Spec == Init /\ [][Next]_vars

\* The steps of main() in a run that no signal interrupts and whose child
\* was launched
MainLive ==
    \/ SendStart
    \/ Spawn
    \/ StoreHandle
    \/ ReadLine
    \/ ReadLineKernel
    \/ KernelIdle
    \/ EndOfOutput
    \/ WaitChild
    \/ Report
    \/ FailDoc
    \/ Resolve
    \/ NoZip
    \/ Plan
    \/ UploadPdRom
    \/ UploadGfRom
    \/ UploadPd
    \/ UploadGf
    \/ Size
    \/ Md5
    \/ Buttons
    \/ JsonUpload
    \/ Final

NextLive ==
    \/ MainLive
    \/ ChildClose
    \/ ChildExit

\* The interpreter keeps running main() (every call it makes returns), and the
\* child closes its output and exits
SpecLive ==
    /\ Init
    /\ [][NextLive]_vars
    /\ WF_vars(MainLive)
    /\ WF_vars(ChildClose)
    /\ WF_vars(ChildExit)

\* The run of a child that writes nothing, against upload services that can
\* answer in every way upload_pd and upload_gofile tell apart
InitUpload ==
    /\ InitCommon
    /\ parse = ParseIdle
    /\ pc = "start"
    /\ tg = TgIdle
    /\ backends = [pd |-> PdResponses, gf |-> GfResponses]
    /\ USE_GOFILE \in BOOLEAN
    /\ stdout = <<>>

NextUpload ==
    \/ SendStart
    \/ Spawn
    \/ StoreHandle
    \/ EndOfOutput
    \/ WaitChild
    \/ ChildClose
    \/ ChildExit
    \/ Report
    \/ FailDoc
    \/ Resolve
    \/ NoZip
    \/ Plan
    \/ UploadPdRom
    \/ UploadGfRom
    \/ UploadPd
    \/ UploadGf
    \/ Size
    \/ Md5
    \/ Buttons
    \/ JsonUpload
    \/ Final

SpecUpload == InitUpload /\ [][NextUpload]_vars

----------------------------------------------------------------------------
(* The progress pattern of rom and bot:                                     *)
(*   regex = re.compile(r"\[\s*(\d+%)\s+(\d+/\d+)(?: (.*?remaining))?.*\]") *)
(* A line is the sequence of its characters, the word "remaining" being one *)
(* element; the newline that ends it is left out ("." does not match it).   *)

Digit == {"0", "1", "2", "3", "4", "5", "6", "7", "8", "9"}

\* the characters \s matches
Space == {" ", "\t"}

\* the end of the longest run of characters of class C that starts at i: the
\* first position at or after i that holds no character of C
RunEnd(s, i, C) ==
    CHOOSE j \in i..(Len(s) + 1) :
        /\ \A k \in i..(j - 1) : s[k] \in C
        /\ j = Len(s) + 1 \/ s[j] \notin C

Least(S) == CHOOSE x \in S : \A y \in S : x <= y

Greatest(S) == CHOOSE x \in S : \A y \in S : y <= x

\* the positions at or after i that hold a "]"
Closers(s, i) == {k \in i..Len(s) : s[k] = "]"}

\* "match" is None
NoMatch == [ok |-> FALSE, pct |-> <<>>, cnt |-> <<>>, time_left |-> <<>>]

\* The match of the pattern that starts at position i, as the backtracking
\* matcher finds it.  Every run of \s and \d is followed by a character
\* outside its class, so each is the longest run; the lazy ".*?remaining"
\* stops at the first "remaining" after which ".*\]" can still match; the
\* optional group is tried before it is skipped.
MatchAt(s, i) ==
    LET a == RunEnd(s, i + 1, Space)
        b == RunEnd(s, a, Digit)
        c == RunEnd(s, b + 1, Space)
        d == RunEnd(s, c, Digit)
        e == RunEnd(s, d + 1, Digit)
        ok == /\ s[i] = "["
              /\ b > a /\ b <= Len(s) /\ s[b] = "%"
              /\ c > b + 1
              /\ d > c /\ d <= Len(s) /\ s[d] = "/"
              /\ e > d + 1
              /\ Closers(s, e) # {}
        Rs == IF ok /\ s[e] = " "
              THEN {r \in (e + 1)..Len(s) : s[r] = "remaining" /\ Closers(s, r + 1) # {}}
              ELSE {}
    IN  IF ~ok THEN NoMatch
        ELSE [ok |-> TRUE,
              pct |-> SubSeq(s, a, b),
              cnt |-> SubSeq(s, c, e - 1),
              time_left |-> IF Rs = {} THEN <<>> ELSE SubSeq(s, e + 1, Least(Rs))]

Matches(s) == {i \in DOMAIN s : MatchAt(s, i).ok}

\* mutant of search: the last match of the line is used
search_last(s) ==
    IF Matches(s) = {} THEN NoMatch ELSE MatchAt(s, Greatest(Matches(s)))

\* regex.search(log_line): the leftmost match; match.groups() with None as <<>>
search(s) ==
    IF Matches(s) = {} THEN NoMatch ELSE MatchAt(s, Least(Matches(s)))

RECURSIVE replace_remaining(_)
\* time_left.replace(" remaining", "")
replace_remaining(s) ==
    IF s = <<>> THEN <<>>
    ELSE IF Len(s) >= 2 /\ s[1] = " " /\ s[2] = "remaining"
         THEN replace_remaining(SubSeq(s, 3, Len(s)))
         ELSE <<s[1]>> \o replace_remaining(Tail(s))

\* str.strip()
strip(s) ==
    LET inner == {k \in DOMAIN s : s[k] \notin Space}
    IN  IF inner = {} THEN <<>> ELSE SubSeq(s, Least(inner), Greatest(inner))

clean(time_left) == strip(replace_remaining(time_left))

\* "[ P%  A/B T remaining]" with sp0 spaces after the bracket and sp1 before A
Spaces(k) == [i \in 1..k |-> " "]

Block(P, A, B, T, sp0, sp1) ==
    <<"[">> \o Spaces(sp0) \o P \o <<"%">> \o Spaces(sp1) \o A \o <<"/">> \o B
    \o <<" ">> \o T \o <<" ", "remaining", "]">>

Percents == {<<"4", "2">>, <<"7">>}

Counts == {<<"1", "0", "0">>, <<"3">>}

Totals == {<<"2", "3", "8">>}

Estimates == {<<"1", "2", "s">>, <<"1", "m", " ", "0", "5", "s">>}

\* what stands before the first progress block: nothing, ninja's rule text,
\* a bracket that is no progress block, the percentage of another tool
Prefixes == {<<>>, <<"x", " ">>, <<"[", "x", "]", " ">>, <<"9", "%", " ">>}

\* what follows it: nothing, a second progress block, the description of the
\* step (with brackets and the word remaining in it)
Suffixes ==
    {<<>>,
     <<" ">> \o Block(<<"9", "9">>, <<"8">>, <<"9">>, <<"1", "s">>, 1, 1),
     <<" ", "x", " ", "[", "remaining", "]">>}

WellFormedLines ==
    {[wf |-> TRUE, P |-> P, A |-> A, B |-> B, T |-> T,
      line |-> pre \o Block(P, A, B, T, sp0, sp1) \o suf] :
        P \in Percents, A \in Counts, B \in Totals, T \in Estimates,
        sp0 \in {0, 1}, sp1 \in {1, 2}, pre \in Prefixes, suf \in Suffixes}

\* lines of another form: no progress block, a block without an estimate, a
\* block without its estimate before a well-formed one
OtherLines ==
    {[wf |-> FALSE, P |-> <<>>, A |-> <<>>, B |-> <<>>, T |-> <<>>, line |-> l] :
        l \in {<<"x">>,
               <<"[", " ", "7", "%", " ", "3", "/", "8", "]">>,
               <<"[", " ", "7", "%", " ", "3", "/", "8", " ", "x", "]", " ">>
                   \o Block(<<"9">>, <<"4">>, <<"8">>, <<"1", "s">>, 1, 1)}}

ParseLines == WellFormedLines \cup OtherLines

InitParse ==
    /\ InitCommon
    /\ variant \in {"rom", "bot"}
    /\ pc = "start"
    /\ tg = TgIdle
    /\ backends = CoarseBackends
    /\ USE_GOFILE = FALSE
    /\ stdout = <<>>
    /\ \E l \in ParseLines :
         parse = [ParseIdle EXCEPT !.st = "line", !.line = l.line, !.wf = l.wf,
                                   !.P = l.P, !.A = l.A, !.B = l.B, !.T = l.T]

Frame_parse == <<variant, USE_GOFILE, backends, tenths, reads,
                 sync_calls, tg, line_steps, pc, stdout,
                 child, child_code, term_sent, BUILD_PROCESS, msg_id,
                 detected_zip, return_code, fs, final_zip, globbed,
                 files_to_upload, upload_idx, buttons_list, main_file_uploaded,
                 pd_link, gf_link, md5, uploads, consumed,
                 hpc, hlog, sigints, req_at_sigint, exit_status>>

\* a line with "Starting ninja..." is read: ninja_started = True
ParseMarker ==
    /\ parse.st = "line" /\ ~ninja_started
    /\ ninja_started' = TRUE
    /\ UNCHANGED <<parse, clock, events, requests, calls, last_update>>
    /\ UNCHANGED Frame_parse

\* the line is read: "match = regex.search(log_line)", "if match and
\* ninja_started: pct, cnt, time_left = match.groups()", and under the
\* throttle "if time_left: clean_time = ..." and the edit
ParseLine ==
    /\ parse.st = "line" /\ parse.n < MaxParses
    /\ \E delay \in Delays :
         LET now == clock + delay
             match == search(parse.line)
             prog == match.ok /\ ninja_started
             emit == prog /\ should_emit(now, last_update)
         IN  /\ clock' = now
             /\ parse' = [parse EXCEPT
                   !.n = @ + 1,
                   !.started = ninja_started,
                   !.matched = prog,
                   !.emitted = emit,
                   !.pct = IF prog THEN match.pct ELSE @,
                   !.cnt = IF prog THEN match.cnt ELSE @,
                   !.time_left = IF prog THEN match.time_left ELSE @,
                   !.clean_time = IF emit /\ match.time_left # <<>>
                                  THEN clean(match.time_left) ELSE @]
             /\ Throttle(prog, now)
    /\ UNCHANGED ninja_started
    /\ UNCHANGED Frame_parse

NextParse ==
    \/ ParseMarker
    \/ ParseLine

SpecParse == InitParse /\ [][NextParse]_vars

----------------------------------------------------------------------------
(* main() with --sync: the sync stage, then the run (build-rom.py and        *)
(* build-bot.py; build-kernel.py has no sync stage)                         *)

InitSync ==
    /\ InitCommon
    /\ parse = ParseIdle
    /\ variant # "kernel"
    /\ pc = "sync_post"
    /\ tg = TgIdle
    /\ backends = CoarseBackends
    /\ USE_GOFILE \in BOOLEAN
    /\ stdout \in SeqsUpTo(RunLines(variant), MaxOut)

Frame_sync == <<variant, USE_GOFILE, backends, tenths, reads, parse,
                tg, line_steps, clock, stdout,
                child, child_code, term_sent, BUILD_PROCESS, last_update,
                ninja_started, detected_zip, return_code, fs, final_zip, globbed,
                files_to_upload, upload_idx, buttons_list, main_file_uploaded,
                pd_link, gf_link, md5, uploads, events, consumed, hpc, hlog,
                sigints, req_at_sigint, exit_status>>

\* msg_id = send_msg(sync_start)
SyncPost ==
    /\ Running /\ pc = "sync_post"
    /\ requests' = Append(requests, Req("sendMessage", "sync_start", clock))
    /\ calls' = Append(calls, "sync_start")
    /\ \E id \in {0, 1} : msg_id' = id
    /\ pc' = "sync_first"
    /\ UNCHANGED sync_calls
    /\ UNCHANGED Frame_sync

\* mutant of needs_fallback: the fallback is run whatever the first exit code
needs_fallback_always(code) == TRUE

\* "if subprocess.call(cmd.split()) != 0:"
needs_fallback(code) == code # 0

\* subprocess.call of "repo sync -c -j.. --optimized-fetch ..." has returned
SyncFirst ==
    /\ Running /\ pc = "sync_first"
    /\ \E code \in ExitCodes :
         /\ sync_calls' = Append(sync_calls, <<"sync_full", code>>)
         /\ pc' = IF needs_fallback(code) THEN "sync_fallback" ELSE "sync_done"
    /\ UNCHANGED <<msg_id, requests, calls>>
    /\ UNCHANGED Frame_sync

\* subprocess.call of "repo sync -j.." has returned; its result is dropped
SyncFallback ==
    /\ Running /\ pc = "sync_fallback"
    /\ \E code \in ExitCodes :
         sync_calls' = Append(sync_calls, <<"sync_plain", code>>)
    /\ pc' = "sync_done"
    /\ UNCHANGED <<msg_id, requests, calls>>
    /\ UNCHANGED Frame_sync

\* edit_msg(msg_id, sync_done); main() goes on to the build setup
SyncDone ==
    /\ Running /\ pc = "sync_done"
    /\ requests' = requests \o edit_msg(msg_id, "sync_done", clock)
    /\ calls' = Append(calls, "sync_done")
    /\ pc' = "start"
    /\ UNCHANGED <<msg_id, sync_calls>>
    /\ UNCHANGED Frame_sync

NextSync ==
    \/ SyncPost
    \/ SyncFirst
    \/ SyncFallback
    \/ SyncDone
    \/ SendStart
    \/ Spawn
    \/ StoreHandle
    \/ ReadLine
    \/ EndOfOutput
    \/ WaitChild
    \/ ChildClose
    \/ ChildExit
    \/ ChildDie
    \/ Report
    \/ FailDoc
    \/ Resolve
    \/ NoZip
    \/ Plan
    \/ UploadPdRom
    \/ UploadGfRom
    \/ UploadPd
    \/ UploadGf
    \/ Size
    \/ Md5
    \/ Buttons
    \/ JsonUpload
    \/ Final
    \/ Sigint
    \/ HandlerWake
    \/ HandlerExit

SpecSync == InitSync /\ [][NextSync]_vars

----------------------------------------------------------------------------
(* tg_req: one notification call *)

\* mutant of retries: one attempt more
retries_more == 3 + 1

\* "def tg_req(method, data, files=None, retries=3)"; no caller passes retries
retries == 3

\* time.sleep(2) of the except branch
RetrySleep == 2

\* what requests.post and r.json() can do in one attempt: post raises, the
\* answer has a status other than 200, the answer has status 200 and a body
\* that is not JSON (r.json() raises), the answer has status 200 and JSON
TgResponses == {"raise", "non200", "badjson", "ok"}

\* utils.tg_req tests BOT_TOKEN first, the tg_req of build-bot.py does not
TgFlavours == {"utils", "bot"}

\* the call made by send_msg at the start of main()
InitTgReq ==
    /\ InitCommon
    /\ parse = ParseIdle
    /\ pc = "start"
    /\ backends = CoarseBackends
    /\ USE_GOFILE = FALSE
    /\ stdout = <<>>
    /\ \E f \in TgFlavours, t \in BOOLEAN :
         tg = [TgIdle EXCEPT !.st = "call", !.flavour = f, !.token = t]

Frame_tg == <<variant, USE_GOFILE, backends, tenths, reads, parse,
              sync_calls, line_steps, pc, stdout,
              child, child_code, term_sent, BUILD_PROCESS, msg_id, last_update,
              ninja_started, detected_zip, return_code, fs, final_zip, globbed,
              files_to_upload, upload_idx, buttons_list, main_file_uploaded,
              pd_link, gf_link, md5, uploads, requests, calls, events, consumed,
              hpc, hlog, sigints, req_at_sigint, exit_status>>

\* "if not BOT_TOKEN: ... return {}" (utils.py only)
TgEnter ==
    /\ tg.st = "call"
    /\ tg' = IF tg.flavour = "utils" /\ ~tg.token
             THEN [tg EXCEPT !.st = "returned", !.result = "empty"]
             ELSE [tg EXCEPT !.st = "post"]
    /\ UNCHANGED clock
    /\ UNCHANGED Frame_tg

\* one pass of "for attempt in range(retries)" up to the print of the branch
\* taken: the return of r.json(), the fall-through of a non-200 answer, or
\* the entry of the except branch
TgPost ==
    /\ tg.st = "post" /\ tg.attempt < retries
    /\ \E r \in TgResponses :
         LET logged == [tg EXCEPT !.log = Append(@, [resp |-> r, time |-> clock]),
                                  !.attempt = @ + 1]
         IN  tg' = CASE r = "ok" -> [logged EXCEPT !.st = "returned", !.result = "json"]
                     [] r = "non200" -> logged
                     [] OTHER -> [logged EXCEPT !.st = "sleep"]
    /\ UNCHANGED clock
    /\ UNCHANGED Frame_tg

\* time.sleep(2) at the end of the except branch
TgSleep ==
    /\ tg.st = "sleep"
    /\ clock' = clock + RetrySleep
    /\ tg' = [tg EXCEPT !.st = "post"]
    /\ UNCHANGED Frame_tg

\* the loop is exhausted: "return {}"
TgGiveUp ==
    /\ tg.st = "post" /\ tg.attempt >= retries
    /\ tg' = [tg EXCEPT !.st = "returned", !.result = "empty"]
    /\ UNCHANGED clock
    /\ UNCHANGED Frame_tg

NextTgReq ==
    \/ TgEnter
    \/ TgPost
    \/ TgSleep
    \/ TgGiveUp

SpecTgReq == InitTgReq /\ [][NextTgReq]_vars

----------------------------------------------------------------------------
(* Properties of the monitor loop *)

IsProgressEdit(r) == r.method = "editMessageText" /\ r.kind = "progress"

ProgressEdits == SelectSeq(requests, IsProgressEdit)

\* index of the first line read that holds the start marker, 0 when none does
FirstMarker(ls) ==
    IF \E i \in DOMAIN ls : ls[i].marker
    THEN CHOOSE i \in DOMAIN ls : ls[i].marker /\ \A j \in 1..(i - 1) : ~ls[j].marker
    ELSE 0

\* the lines read that match the progress pattern at or after the start marker
ProgressLinesAfterMarker(ls) ==
    {i \in DOMAIN ls : ls[i].prog /\ FirstMarker(ls) # 0 /\ i >= FirstMarker(ls)}

\* C1: in the rom and bot monitor loops a progress edit is sent only for a line
\* read at or after the first line holding "Starting ninja...": the lines read
\* before the marker send none, even when they match the progress pattern.
C1_NoProgressBeforeMarker ==
    variant \in {"rom", "bot"} =>
        /\ Len(ProgressEdits) <= Cardinality(ProgressLinesAfterMarker(consumed))
        /\ Len(events) = Cardinality(ProgressLinesAfterMarker(consumed))

\* a matching line was read before the marker, and a later line sent an edit
C1_Witness ==
    /\ variant = "rom"
    /\ Len(consumed) >= 2
    /\ consumed[1].prog /\ ~consumed[1].marker
    /\ FirstMarker(consumed) = 2
    /\ Len(ProgressEdits) = 1

\* C2: in every variant the event times of two consecutive progress edits
\* differ by more than 15 seconds.
C2_EditsMoreThanIntervalApart ==
    \A i \in 1..(Len(ProgressEdits) - 1) :
        ProgressEdits[i + 1].time - ProgressEdits[i].time > MinInterval

\* two edits were sent and an event between them was suppressed
C2_Witness ==
    /\ variant = "kernel"
    /\ Len(ProgressEdits) = 2
    /\ Len(events) = 3
    /\ ~events[2].emit

\* time of the last event before the i-th that was emitted, 0 when none was
LastEmitBefore(i) ==
    IF \E j \in 1..(i - 1) : events[j].emit
    THEN events[CHOOSE j \in 1..(i - 1) :
                    events[j].emit /\ \A k \in (j + 1)..(i - 1) : ~events[k].emit].time
    ELSE 0

\* C3: a progress event is emitted iff its time is more than 15 seconds after
\* the last emission (0 before the first): exactly 15 seconds is suppressed.
C3_EmitIffStrictlyLater ==
    \A i \in DOMAIN events :
        events[i].emit <=> (events[i].time - LastEmitBefore(i) > MinInterval)

\* an event exactly 15 seconds after the last emission, suppressed
C3_Witness ==
    \E i \in DOMAIN events :
        /\ LastEmitBefore(i) # 0
        /\ events[i].time - LastEmitBefore(i) = MinInterval
        /\ ~events[i].emit

EditTimes == [i \in DOMAIN ProgressEdits |-> ProgressEdits[i].time]

\* C4: with the first three progress events after the marker at t, t+5 and
\* t+20, the event at t is emitted, the one at t+5 is not, the one at t+20 is;
\* and when the starting post gave a message id the edits sent are exactly
\* those of t and t+20.
C4_FirstFifthTwentieth ==
    variant \in {"rom", "bot"} =>
        /\ Len(events) >= 1 => events[1].emit
        /\ (Len(events) >= 2 /\ events[2].time = events[1].time + 5)
               => ~events[2].emit
        /\ (/\ Len(events) >= 3
            /\ events[2].time = events[1].time + 5
            /\ events[3].time = events[1].time + 20)
               => /\ events[3].emit
                  /\ msg_id # 0 =>
                        SubSeq(EditTimes, 1, 2)
                            = <<events[1].time, events[1].time + 20>>

\* the three events at t, t+5 and t+20 have been read, with a message id
C4_Witness ==
    /\ variant = "rom"
    /\ msg_id # 0
    /\ Len(events) = 3
    /\ events[2].time = events[1].time + 5
    /\ events[3].time = events[1].time + 20
    /\ Len(ProgressEdits) = 2

----------------------------------------------------------------------------
(* Properties of the outcome of a run *)

Last(sq) == sq[Len(sq)]

Finished == pc = "done" /\ exit_status # -1

HasRequest(method, kind) ==
    \E i \in DOMAIN requests : requests[i].method = method /\ requests[i].kind = kind

NoResolutionNoUpload ==
    /\ uploads = <<>>
    /\ final_zip = "" /\ ~globbed /\ fs = FsGone
    /\ \A i \in DOMAIN calls : calls[i] \notin {"uploading", "upload_fail", "final_msg"}

\* C5: a run that is not interrupted and whose child ended with a nonzero exit
\* code makes the build-failed edit, attaches the log and exits with status 1,
\* and at no point resolves the artifact or uploads, whatever the number of
\* output lines.
C5_NonzeroExitTakesFailurePath ==
    /\ (return_code \notin {-1, 0}) => NoResolutionNoUpload
    /\ (Finished /\ sigints = 0 /\ child = "exited" /\ child_code # 0) =>
          /\ exit_status = 1
          /\ Len(calls) >= 2
          /\ SubSeq(calls, Len(calls) - 1, Len(calls)) = <<"build_fail", "send_doc">>
          /\ Last(requests).method = "sendDocument"
          /\ msg_id # 0 => HasRequest("editMessageText", "build_fail")
          /\ NoResolutionNoUpload

\* the child wrote no line at all, exited nonzero, and the failure was reported
C5_Witness ==
    /\ Finished /\ sigints = 0
    /\ consumed = <<>>
    /\ child = "exited" /\ child_code = 1 /\ return_code = 1
    /\ msg_id # 0
    /\ exit_status = 1

\* C6: the exit status of a run that is not interrupted is 0 exactly when the
\* build exit code is 0 and the primary artifact was uploaded to a backend, and
\* 1 otherwise.
C6_ExitStatusZeroIffFullSuccess ==
    (Finished /\ sigints = 0) =>
        /\ exit_status \in {0, 1}
        /\ exit_status = 0 <=> (return_code = 0 /\ final_zip # "" /\ primary_uploaded)

\* C7: once SIGINT has been delivered no notification request is sent.
C7_NoRequestAfterSigint ==
    req_at_sigint # -1 => Len(requests) = req_at_sigint

\* C8: a handler that finds the child alive terminates it, sleeps, kills it
\* only if it is still alive after the sleep, and exits the program; a handler
\* that finds the child exited issues neither terminate nor kill.
C8_HandlerOrder ==
    /\ \A i \in DOMAIN hlog :
          /\ hlog[i] = "enter_alive" => (i < Len(hlog) /\ hlog[i + 1] = "terminate")
          /\ hlog[i] = "terminate" => (i > 1 /\ hlog[i - 1] = "enter_alive")
          /\ (hlog[i] = "terminate" /\ i < Len(hlog))
                => hlog[i + 1] \in {"wake_alive", "wake_dead"}
          /\ hlog[i] \in {"wake_alive", "wake_dead"}
                => (i > 1 /\ hlog[i - 1] = "terminate")
          /\ hlog[i] = "wake_alive" => (i < Len(hlog) /\ hlog[i + 1] = "kill")
          /\ hlog[i] = "kill" => (i > 1 /\ hlog[i - 1] = "wake_alive")
          /\ (hlog[i] \in {"wake_dead", "kill", "enter_nochild"} /\ i < Len(hlog))
                => hlog[i + 1] = "exit"
          /\ hlog[i] = "exit"
                => (i > 1 /\ hlog[i - 1]
                        \in {"wake_dead", "kill", "enter_nochild", "enter_unseen"})
    /\ (hlog # <<>> /\ hpc = "sleep") => Last(hlog) = "terminate"
    /\ (hlog # <<>> /\ hpc = "idle") => Last(hlog) = "exit"
    /\ (\E i \in DOMAIN hlog : hlog[i] = "enter_alive") =>
          /\ term_sent
          /\ hpc = "idle" => (exit_status = 0 /\ child = "exited")

\* the child outlived the terminate and the sleep, was killed, and the program
\* has exited
C8_Witness ==
    /\ hlog = <<"enter_alive", "terminate", "wake_alive", "kill", "exit">>
    /\ exit_status = 0

\* the path of the last "Package Complete:" line read, "" when there is none
LastMarkerPath(ls) ==
    IF \E i \in DOMAIN ls : ls[i].pkg # "none"
    THEN ls[CHOOSE i \in DOMAIN ls :
                ls[i].pkg # "none" /\ \A j \in (i + 1)..Len(ls) : ls[j].pkg = "none"].pkg
    ELSE ""

JustResolved == variant = "rom" /\ pc \in {"plan", "nozip"}

\* C9: in the rom build, when the path of the "Package Complete:" line exists
\* it is the primary artifact and no glob is run; otherwise the glob is run and
\* the primary artifact is a match with the greatest creation time (none when
\* nothing matches).
C9_DetectedPathBeforeGlob ==
    JustResolved =>
        IF LastMarkerPath(consumed) # "" /\ fs.det_exists
        THEN final_zip = LastMarkerPath(consumed) /\ ~globbed
        ELSE /\ globbed
             /\ fs.zips = <<>> => final_zip = ""
             /\ fs.zips # <<>> =>
                   /\ final_zip \in Range(fs.zips)
                   /\ \A z \in Range(fs.zips) : fs.ctime[z] <= fs.ctime[final_zip]

\* the detected a.zip exists while the glob matches b.zip only
C9_Witness ==
    /\ JustResolved
    /\ LastMarkerPath(consumed) = "a.zip" /\ fs.det_exists
    /\ fs.zips = <<"b.zip">>
    /\ final_zip = "a.zip"

\* the resolution found no primary artifact
NoArtifactFound ==
    IF variant = "kernel"
    THEN final_zip = "" /\ (\E i \in DOMAIN calls : calls[i] = "uploading")
    ELSE /\ fs # FsGone
         /\ fs.zips = <<>>
         /\ ~(variant = "rom" /\ LastMarkerPath(consumed) # "" /\ fs.det_exists)

\* C10: a run that is not interrupted, whose child exited with code 0 and
\* whose resolution found no primary artifact, makes the upload-failed edit,
\* attempts no upload and exits with status 1.
C10_NoArtifactIsFailure ==
    (Finished /\ sigints = 0 /\ return_code = 0 /\ NoArtifactFound) =>
        /\ exit_status = 1
        /\ uploads = <<>>
        /\ Last(calls) = "upload_fail"
        /\ msg_id # 0 => Last(requests) = Req("editMessageText", "upload_fail", clock)

\* exit code 0, a detected path that does not exist and an empty glob
C10_Witness ==
    /\ Finished /\ sigints = 0 /\ return_code = 0
    /\ variant = "rom"
    /\ LastMarkerPath(consumed) = "a.zip"
    /\ NoArtifactFound
    /\ msg_id # 0

----------------------------------------------------------------------------
(* Properties of the uploads *)

IsPrimary(u) == u[2] = final_zip

\* the upload failed in one of the ways the backends can fail: transport
\* error, a status that is not a success, a malformed body
UploadFailed(u) ==
    IF u[1] = "pd" THEN u[3] \in {"error", "non2xx", "badjson", "noid"}
    ELSE u[3] \in {"error", "non200", "nokey"}

\* the primary attempt on the backend, as a set (empty before the attempt)
PrimaryAttempts(backend) ==
    {i \in DOMAIN uploads : uploads[i][1] = backend /\ IsPrimary(uploads[i])}

DownloadButtons == {i \in DOMAIN buttons_list : buttons_list[i][1] = "Download"}

\* the file is one that goes to both backends: every file of the rom build,
\* the primary artifact of the other two
GoesToBoth(u) == variant = "rom" \/ IsPrimary(u)

\* C11: with both backends enabled, a PixelDrain attempt is followed by the
\* GoFile attempt of the same file whatever the PixelDrain outcome was, and a
\* finished run whose primary artifact failed on PixelDrain (error, non-2xx,
\* malformed body) and succeeded on GoFile reports upload success with
\* exactly one link for the primary artifact.
C11_BackendFailureIsIsolated ==
    USE_GOFILE =>
        /\ \A i \in DOMAIN uploads :
              (uploads[i][1] = "pd" /\ GoesToBoth(uploads[i])) =>
                  IF i < Len(uploads)
                  THEN uploads[i + 1][1] = "gf" /\ uploads[i + 1][2] = uploads[i][2]
                  ELSE pc = "up_gf"
        /\ (/\ Finished
            /\ \E i \in PrimaryAttempts("pd") : UploadFailed(uploads[i])
            /\ \E i \in PrimaryAttempts("gf") : ~UploadFailed(uploads[i]))
              => /\ Last(calls) = "final_msg"
                 /\ Cardinality(DownloadButtons) = 1

EnabledBackends == IF USE_GOFILE THEN {"pd", "gf"} ELSE {"pd"}

\* C12: no upload attempt of the primary artifact follows an upload attempt of
\* a secondary artifact (recovery bundle, JSON file), and once a secondary
\* artifact has been attempted the primary artifact has been attempted on
\* every enabled backend.
C12_PrimaryBeforeSecondary ==
    /\ \A i, j \in DOMAIN uploads :
          (i < j /\ ~IsPrimary(uploads[i])) => ~IsPrimary(uploads[j])
    /\ (\E i \in DOMAIN uploads : ~IsPrimary(uploads[i])) =>
          \A b \in EnabledBackends : PrimaryAttempts(b) # {}

\* both backends enabled, the primary artifact failed on both and the
\* recovery bundle has been attempted
C12_Witness ==
    /\ USE_GOFILE
    /\ Len(uploads) >= 3
    /\ IsPrimary(uploads[1]) /\ UploadFailed(uploads[1])
    /\ IsPrimary(uploads[2]) /\ UploadFailed(uploads[2])
    /\ uploads[3][2] = "rec.zip"

\* the upload function returned a link for the attempt
ReturnedLink(u) ==
    IF u[1] = "pd" THEN upload_pd(u[3]) # NoLink ELSE upload_gofile(u[3]) # NoLink

PrimaryHasLink == \E i \in DOMAIN uploads : IsPrimary(uploads[i]) /\ ReturnedLink(uploads[i])

SecondaryHasLink == \E i \in DOMAIN uploads : ~IsPrimary(uploads[i]) /\ ReturnedLink(uploads[i])

\* C13: the upload-complete report is made only when some backend returned a
\* link for the primary artifact, and the upload-failed report only when none
\* did, whatever the outcomes of the secondary artifacts were.
C13_FinalReportFollowsPrimary ==
    /\ (\E i \in DOMAIN calls : calls[i] = "final_msg") => PrimaryHasLink
    /\ (\E i \in DOMAIN calls : calls[i] = "upload_fail") => ~PrimaryHasLink
    /\ (Finished /\ sigints = 0 /\ uploads # <<>>) =>
          Last(calls) \in {"final_msg", "upload_fail"}

\* the primary artifact got no link, the recovery bundle got one, and the run
\* ended with the upload-failed report
C13_Witness ==
    /\ Finished
    /\ ~PrimaryHasLink /\ SecondaryHasLink
    /\ Last(calls) = "upload_fail"

----------------------------------------------------------------------------
(* Properties of tg_req *)

HasStatus200(a) == a.resp \in {"ok", "badjson"}

AttemptFailed(a) == a.resp \in {"raise", "non200"}

\* at most three attempts, and the empty result without a raise once three
\* attempts have failed
TgBoundedAndQuiet ==
    /\ Len(tg.log) <= 3
    /\ tg.st \in {"call", "post", "sleep", "returned"}
    /\ (Len(tg.log) = 3 /\ \A i \in 1..3 : AttemptFailed(tg.log[i])) =>
          /\ tg.st \in {"post", "sleep", "returned"}
          /\ tg.st = "returned" => tg.result = "empty"

\* C14 as stated: at most 3 attempts, no attempt after one answered with
\* status 200, and the empty result instead of a raise after three attempts
\* that failed by transport error or non-200 answer.
C14_AtMostThreeStopAt200 ==
    /\ TgBoundedAndQuiet
    /\ \A i \in DOMAIN tg.log :
          HasStatus200(tg.log[i]) => (i = Len(tg.log) /\ tg.st = "returned")

\* C14 amended: at most 3 attempts; the call returns the body at the first
\* attempt answered with status 200 and a JSON body and makes no attempt
\* after it; an answer with status 200 whose body is not JSON counts as a
\* failed attempt; after three failed attempts the call returns the empty
\* result and does not raise.
C14_AtMostThreeStopAtJson ==
    /\ TgBoundedAndQuiet
    /\ \A i \in DOMAIN tg.log :
          tg.log[i].resp = "ok" =>
              (i = Len(tg.log) /\ tg.st = "returned" /\ tg.result = "json")
    /\ (tg.st = "returned" /\ tg.result = "json") =>
          (tg.log # <<>> /\ Last(tg.log).resp = "ok")
    /\ (tg.st = "returned" /\ tg.result = "empty") =>
          \/ tg.log = <<>> /\ tg.flavour = "utils" /\ ~tg.token
          \/ Len(tg.log) = 3 /\ \A i \in 1..3 : tg.log[i].resp # "ok"

\* a non-200 answer, a transport error and a 200 answer that is not JSON:
\* the call has returned the empty result
C14_Witness ==
    /\ tg.st = "returned" /\ tg.result = "empty"
    /\ Len(tg.log) = 3
    /\ tg.log[1].resp = "non200"
    /\ tg.log[2].resp = "raise"
    /\ tg.log[3].resp = "badjson"

\* C15: two consecutive attempts of one call are at least the backoff apart,
\* after a transport error and after a non-200 answer alike.
C15_BackoffBetweenAttempts ==
    \A i \in DOMAIN tg.log :
        i < Len(tg.log) => tg.log[i + 1].time - tg.log[i].time >= RetrySleep

----------------------------------------------------------------------------
(* Properties of the sync stage *)

SyncPcs == {"sync_post", "sync_first", "sync_fallback", "sync_done"}

SyncStageOver == \E i \in DOMAIN calls : calls[i] = "sync_done"

BuildStarted == child # "none" /\ \E i \in DOMAIN calls : calls[i] = "build_start"

\* C18: the first sync command is run first and once; the fallback command is
\* run only after a nonzero exit of the first, at most once, and it has been
\* run when the sync stage is over after a nonzero exit of the first; a run
\* that is not interrupted does not end before the build child was started,
\* whatever the exit codes of the sync commands were.
C18_FallbackIffFirstFails ==
    /\ Len(sync_calls) <= 2
    /\ sync_calls # <<>> => sync_calls[1][1] = "sync_full"
    /\ Len(sync_calls) = 2 =>
          (sync_calls[2][1] = "sync_plain" /\ sync_calls[1][2] # 0)
    /\ pc = "sync_fallback" => (Len(sync_calls) = 1 /\ sync_calls[1][2] # 0)
    /\ SyncStageOver =>
          /\ sync_calls # <<>>
          /\ Len(sync_calls) = 2 <=> sync_calls[1][2] # 0
    /\ (pc \notin SyncPcs /\ sigints = 0) => SyncStageOver
    /\ (Finished /\ sigints = 0) => BuildStarted

\* both sync commands exited nonzero and the build child is running
C18_Witness ==
    /\ sync_calls = <<<<"sync_full", 1>>, <<"sync_plain", 1>>>>
    /\ child = "running"
    /\ BuildStarted

----------------------------------------------------------------------------
(* Properties of the notifications *)

CallsOf(kind) == {i \in DOMAIN calls : calls[i] = kind}

\* C16: when the starting post of the build returned no message id, no
\* editMessageText request is made after it, through the progress, failure,
\* uploading and final reports; the same holds for the edit of the sync stage
\* after a failed post of the sync stage.
C16_NoEditWithoutMessageId ==
    /\ \A i \in DOMAIN requests :
          (requests[i].kind = "build_start" /\ msg_id = 0) =>
              \A j \in DOMAIN requests :
                  j > i => requests[j].method # "editMessageText"
    /\ (pc \in {"sync_first", "sync_fallback", "sync_done", "start"} /\ msg_id = 0) =>
          \A j \in DOMAIN requests : requests[j].method # "editMessageText"

\* the post of the sync stage returned an id and its edit was sent, the
\* starting post of the build returned none, and the run made a progress
\* edit, the uploading edit and the final edit
C16_Witness ==
    /\ Finished /\ msg_id = 0
    /\ Len(requests) >= 2
    /\ requests[2] = Req("editMessageText", "sync_done", Epoch)
    /\ CallsOf("progress") # {}
    /\ CallsOf("uploading") # {}
    /\ CallsOf("final_msg") # {}

\* the upload attempts without their outcomes
Targets(ups) == [i \in DOMAIN ups |-> <<ups[i][1], ups[i][2]>>]

\* the attempts one file gets
AttemptsOf(path) ==
    <<<<"pd", path>>>> \o (IF USE_GOFILE THEN <<<<"gf", path>>>> ELSE <<>>)

RECURSIVE AttemptsOfAll(_)
AttemptsOfAll(files) ==
    IF files = <<>> THEN <<>>
    ELSE AttemptsOf(Head(files).path) \o AttemptsOfAll(Tail(files))

\* what the monitor loop leaves in return_code, from the child alone
ReturnCodeOfChild ==
    IF variant = "rom" /\ \E i \in DOMAIN consumed : consumed[i].pkg = "empty"
    THEN 1
    ELSE child_code

\* the sequences of upload attempts the child's result and the files found
\* allow; the JSON file of build-bot.py may exist or not
TargetsOfInputs ==
    IF ReturnCodeOfChild # 0 \/ final_zip = "" THEN {<<>>}
    ELSE CASE variant = "rom" -> {AttemptsOfAll(files_to_upload)}
           [] variant = "bot" -> {AttemptsOf(final_zip),
                                  AttemptsOf(final_zip) \o <<<<"pd", "x.json">>>>}
           [] OTHER -> {AttemptsOf(final_zip)}

ExitStatusOfInputs == IF ReturnCodeOfChild # 0 \/ final_zip = "" THEN 1 ELSE 0

\* C17: in a run that is not interrupted the build child is started, and the
\* sequence of upload attempts and the exit status are functions of the
\* child's output and exit code, of the files found and of nothing else: no
\* outcome of a post or of an edit enters them, so two runs that differ in
\* notification outcomes only have the same upload attempts and exit status.
C17_NotificationsDoNotSteer ==
    (Finished /\ sigints = 0) =>
        /\ BuildStarted
        /\ return_code = ReturnCodeOfChild
        /\ Targets(uploads) \in TargetsOfInputs
        /\ exit_status = ExitStatusOfInputs

\* the post of the sync stage and the starting post of the build both failed,
\* and the run uploaded the primary artifact and reported success
C17_Witness ==
    /\ Finished /\ sigints = 0
    /\ msg_id = 0
    /\ Len(requests) = 2
    /\ requests[1].kind = "sync_start" /\ requests[2].kind = "build_start"
    /\ PrimaryHasLink
    /\ Last(calls) = "final_msg"
    /\ exit_status = 0

----------------------------------------------------------------------------
(* Properties of the handling of one line *)

\* the position of the step in line_steps, 0 when the step was not made
StepAt(step) ==
    IF \E i \in DOMAIN line_steps : line_steps[i] = step
    THEN CHOOSE i \in DOMAIN line_steps : line_steps[i] = step
    ELSE 0

\* C19: every line read is written to the log first, echoed to the console
\* second and classified third; the progress edit, when one is made, comes
\* after the classification and is followed by the update of the last-emit
\* time.
C19_LogEchoClassifyEdit ==
    consumed # <<>> =>
        /\ StepAt("log") = 1
        /\ StepAt("echo") = 2
        /\ StepAt("classify") = 3
        /\ StepAt("edit") # 0 =>
              (StepAt("edit") = 4 /\ StepAt("last_update") = 5)

\* C20: no line raises while it is processed, whatever it holds, and the
\* return code the report is made from is the exit code of the child.
C20_LineContentNeverDecides ==
    /\ StepAt("raise") = 0
    /\ return_code # -1 => return_code = child_code

----------------------------------------------------------------------------
(* Properties of the end of the build *)

\* C21: a run in which the launch of the child failed ends like a run whose
\* child exited nonzero: with the build-failed edit, the log attached and
\* exit status 1.
C21_SpawnFailureIsReported ==
    (Finished /\ sigints = 0 /\ child = "failed") =>
        /\ exit_status = 1
        /\ Len(calls) >= 2
        /\ SubSeq(calls, Len(calls) - 1, Len(calls)) = <<"build_fail", "send_doc">>
        /\ msg_id # 0 => HasRequest("editMessageText", "build_fail")

\* a report made after the monitor loop
PostLoopReports == {"build_fail", "uploading", "upload_fail", "final_msg"}

\* C23: once the build-failed report or a report of the success path has been
\* made, the child has exited and return_code is its exit code.
C23_ReportOnlyAfterChildReaped ==
    (\E i \in DOMAIN calls : calls[i] \in PostLoopReports) =>
        /\ child = "exited"
        /\ return_code = child_code

----------------------------------------------------------------------------
(* Properties of the interruption *)

\* the program has exited through the handler's sys.exit(0)
ExitedByInterrupt ==
    /\ Finished
    /\ hlog # <<>> /\ Last(hlog) = "exit"
    /\ calls = <<>> \/ Last(calls) \notin {"send_doc", "upload_fail", "final_msg"}

\* C24: when the program has exited through the handler after the child was
\* spawned, the child is not running any more.
C24_InterruptReachesChild ==
    (ExitedByInterrupt /\ child # "none") => child = "exited"

----------------------------------------------------------------------------
(* Frame of the throttle *)

EmittedEvents == {i \in DOMAIN events : events[i].emit}

\* C26: the last-emit time is the time of the last progress event that was
\* emitted (0 before the first), whatever suppressed events came after it;
\* there are as many progress edits as emitted events, each at the time of
\* its event, so a suppressed event sends nothing, then or later.
C26_SuppressedEventHasNoEffect ==
    /\ last_update = IF EmittedEvents = {} THEN 0
                     ELSE events[CHOOSE i \in EmittedEvents :
                                    \A j \in EmittedEvents : j <= i].time
    /\ Cardinality(CallsOf("progress")) = Cardinality(EmittedEvents)
    /\ msg_id # 0 =>
          /\ Len(ProgressEdits) = Cardinality(EmittedEvents)
          /\ \A k \in DOMAIN ProgressEdits :
                \E i \in EmittedEvents : events[i].time = ProgressEdits[k].time
    /\ msg_id = 0 => Len(ProgressEdits) = 0

\* an event was suppressed 5 s after an edit, and the next event, 15 s after
\* the suppressed one, was emitted
C26_Witness ==
    /\ msg_id # 0
    /\ Len(events) = 3
    /\ events[1].emit /\ ~events[2].emit /\ events[3].emit
    /\ events[2].time - events[1].time = 5
    /\ events[3].time - events[2].time = 15

----------------------------------------------------------------------------
(* Properties of the kernel loop *)

PastLoop == pc \notin {"start", "spawn", "store", "loop"}

----------------------------------------------------------------------------
(* Properties of the order of the reports *)

\* the position of the only call of the kind, 0 when there is none
CallAt(kind) == IF CallsOf(kind) = {} THEN 0 ELSE CHOOSE i \in CallsOf(kind) : TRUE

Edits == {"progress", "build_fail", "uploading", "upload_fail", "final_msg"}

\* the reports made so far are the beginning of a lifecycle: the starting
\* post, progress edits, one of build-failed and uploading, and after
\* uploading one of upload-failed and upload-complete
LifecyclePrefix ==
    /\ calls # <<>> => calls[1] = "build_start"
    /\ \A k \in {"build_start", "build_fail", "uploading", "upload_fail", "final_msg"} :
          Cardinality(CallsOf(k)) <= 1
    /\ CallsOf("build_fail") = {} \/ CallsOf("uploading") = {}
    /\ CallsOf("upload_fail") = {} \/ CallsOf("final_msg") = {}
    /\ \A i \in CallsOf("progress") :
          /\ 1 < i
          /\ \A k \in {"build_fail", "uploading"} : CallAt(k) # 0 => i < CallAt(k)
          /\ pc \notin {"start", "spawn", "store"}
    /\ \A k \in {"upload_fail", "final_msg"} :
          CallAt(k) # 0 => (CallAt("uploading") # 0 /\ CallAt("uploading") < CallAt(k))
    /\ \A k \in {"build_fail", "upload_fail", "final_msg"} :
          CallAt(k) # 0 => \A j \in DOMAIN calls : j > CallAt(k) => calls[j] \notin Edits

\* the lifecycle is complete
LifecycleComplete ==
    \/ CallAt("build_fail") # 0
    \/ CallAt("uploading") # 0 /\ (CallAt("upload_fail") # 0 \/ CallAt("final_msg") # 0)

\* C25: in a run that is not interrupted the reports are at every moment the
\* beginning of a lifecycle (every progress edit comes before build-failed or
\* uploading, no edit comes after a terminal report), and when the run has
\* ended the lifecycle is complete.
C25_ReportsFollowLifecycle ==
    sigints = 0 =>
        /\ LifecyclePrefix
        /\ Finished => LifecycleComplete

----------------------------------------------------------------------------
(* Termination *)

TerminalReports ==
    CallsOf("build_fail") \cup CallsOf("upload_fail") \cup CallsOf("final_msg")

\* C27: when the child closes its output and exits, every call returns and no
\* signal arrives, the run comes to its end with exactly one terminal report
\* (build-failed, upload-failed or upload-complete) made, and stays there.
C27_EndsWithOneTerminalReport ==
    <>[](Finished /\ Cardinality(TerminalReports) = 1)

C27_Witness ==
    /\ Finished /\ sigints = 0 /\ child = "exited"
    /\ Cardinality(TerminalReports) = 1
    /\ Len(calls) >= 3

----------------------------------------------------------------------------
(* Properties of the progress pattern *)

\* C22: when a well-formed line "[ P%  A/B T remaining]" is read after the
\* start marker, the pattern matches and the groups are P with its percent
\* sign and A/B; when the progress edit is made the estimate shown is T.
\* With a second progress block in the line, the values are those of the
\* first one.
C22_WellFormedLineIsExtracted ==
    (parse.wf /\ parse.n >= 1 /\ parse.started) =>
        /\ parse.matched
        /\ parse.pct = parse.P \o <<"%">>
        /\ parse.cnt = parse.A \o <<"/">> \o parse.B
        /\ parse.time_left # <<>>
        /\ strip(replace_remaining(parse.time_left)) = parse.T
        /\ parse.emitted => parse.clean_time = parse.T

C22_Witness ==
    /\ parse.wf /\ parse.n >= 1 /\ parse.started /\ parse.emitted
    /\ Cardinality(Matches(parse.line)) >= 2
    /\ parse.line[1] # "["
    /\ parse.pct = <<"4", "2", "%">>
    /\ parse.cnt = <<"1", "0", "0", "/", "2", "3", "8">>
    /\ parse.clean_time = <<"1", "2", "s">>

====
